---- MODULE Spec2Model ----
(***************************************************************************)
(* python/tvm/contrib/gemmini/helpers.py: create_header_file.              *)
(*                                                                         *)
(* The two artifacts <name>.h and <name>.c are modelled character by       *)
(* character: a text is a sequence of one-character strings.  An array is  *)
(* a record [dtype, shape, item], item mapping each index tuple to the     *)
(* element stored there.  A float32 element is a record [neg, q]: the sign *)
(* bit and the magnitude in quarters (|x| = q/4), which covers finite      *)
(* values that numpy prints positionally; integers are TLC integers, so    *)
(* uint32 elements stay below 2^31.                                        *)
(***************************************************************************)
EXTENDS Integers, Sequences, FiniteSets, TLC

VARIABLES fs, open_files, log

vars == <<fs, open_files, log>>

(***************************************************************************)
(* Text helpers.                                                           *)
(***************************************************************************)
HexDigits == <<"0","1","2","3","4","5","6","7","8","9","a","b","c","d","e","f">>

DecDigits == <<"0","1","2","3","4","5","6","7","8","9">>

RECURSIVE ConcatAll(_)
ConcatAll(ss) == IF ss = <<>> THEN <<>> ELSE Head(ss) \o ConcatAll(Tail(ss))

\* str(int) of a non-negative integer
RECURSIVE DecStr(_)
DecStr(n) ==
    IF n < 10 THEN <<DecDigits[n + 1]>>
    ELSE DecStr(n \div 10) \o <<DecDigits[(n % 10) + 1]>>

\* bytes.hex() of one byte: two lowercase hex digits
Hex2(b) == <<HexDigits[(b \div 16) + 1], HexDigits[(b % 16) + 1]>>

\* the digits numpy prints after the point for a magnitude of r quarters
FracStr(r) ==
    CASE r = 0 -> <<"0">>
      [] r = 1 -> <<"2","5">>
      [] r = 2 -> <<"5">>
      [] r = 3 -> <<"7","5">>

\* f"{x}" of a numpy scalar x of the given dtype
ScalarStr(dtype, v) ==
    IF dtype = "float32"
    THEN (IF v.neg THEN <<"-">> ELSE <<>>)
         \o DecStr(v.q \div 4) \o <<".">> \o FracStr(v.q % 4)
    ELSE IF v < 0 THEN <<"-">> \o DecStr(-v) ELSE DecStr(v)

(***************************************************************************)
(* numpy arrays.                                                           *)
(***************************************************************************)
RECURSIVE Prod(_)
Prod(s) == IF s = <<>> THEN 1 ELSE Head(s) * Prod(Tail(s))

\* len(tensor_data) in place of tensor_data.size
SizeLen(t) == IF t.shape = <<>> THEN 1 ELSE t.shape[1]

\* tensor_data.size
Size(t) == Prod(t.shape)

\* a flatten() in column-major order: the first index varies fastest
RECURSIVE UnravelColumnMajor(_, _)
UnravelColumnMajor(k, shape) ==
    IF shape = <<>> THEN <<>>
    ELSE <<k % Head(shape)>> \o UnravelColumnMajor(k \div Head(shape), Tail(shape))

\* the index tuple of the k-th element (from 0) in row-major order
RECURSIVE Unravel(_, _)
Unravel(k, shape) ==
    IF shape = <<>> THEN <<>>
    ELSE LET inner == Prod(Tail(shape))
         IN  <<k \div inner>> \o Unravel(k % inner, Tail(shape))

\* tensor_data.flatten()
flatten(t) == [k \in 1..Prod(t.shape) |-> t.item[Unravel(k - 1, t.shape)]]

\* the byte stored for an element of a one-byte dtype (two's complement)
ByteOf(v) == IF v < 0 THEN v + 256 ELSE v

\* tensor_data.tobytes().hex() for the one-byte dtypes
data_hexstr(t) ==
    LET f == flatten(t)
    IN  ConcatAll([k \in 1..Len(f) |-> Hex2(ByteOf(f[k]))])

(***************************************************************************)
(* create_header_file: type and alignment of the element kind.             *)
(***************************************************************************)
SupportedDtypes == {"float32", "int8", "uint8", "uint32"}

TypeOf(dtype) ==
    CASE dtype = "float32" -> <<"f","l","o","a","t">>
      [] dtype = "int8"    -> <<"i","n","t","8","_","t">>
      [] dtype = "uint8"   -> <<"u","i","n","t","8","_","t">>
      [] dtype = "uint32"  -> <<"u","i","n","t","3","2","_","t">>

AlignOf(dtype) == IF dtype = "float32" THEN 32 ELSE 16

(***************************************************************************)
(* create_header_file: the texts it writes.  A call's arguments are a      *)
(* record a = [tensor_name, section, tensor_data, debug, weights]; name    *)
(* and output_path are fixed, so every call addresses the same two files.  *)
(***************************************************************************)
\* weights=None
NoWeights == [dtype |-> "None", shape |-> <<>>, item |-> <<>>]

\* header_file.write(...): the size macro and the extern declaration
HeaderText(a) ==
    <<"#","d","e","f","i","n","e"," ">> \o a.tensor_name
    \o <<"_","l","e","n"," ">> \o DecStr(Size(a.tensor_data)) \o <<"\n">>
    \o <<"e","x","t","e","r","n"," ">> \o TypeOf(a.tensor_data.dtype) \o <<" ">>
    \o a.tensor_name \o <<"[">> \o a.tensor_name \o <<"_","l","e","n">>
    \o <<"]",";","\n">>

IncludeLine ==
    <<"#","i","n","c","l","u","d","e"," ","<","s","t","d","i","n","t",".","h",">","\n">>

\* the line that opens the initializer, with or without the section clause
OpeningLine(a) ==
    LET ty == TypeOf(a.tensor_data.dtype)
        al == DecStr(AlignOf(a.tensor_data.dtype))
    IN  IF a.section # <<>>
        THEN ty \o <<" ">> \o a.tensor_name
             \o <<"[","]"," ","_","_","a","t","t","r","i","b","u","t","e","_","_",
                  "(","(","s","e","c","t","i","o","n","(","\"">>
             \o a.section
             \o <<"\"",")",","," ","a","l","i","g","n","e","d","(">> \o al
             \o <<")",")",")"," ","="," ","{">>
        ELSE ty \o <<" ">> \o a.tensor_name
             \o <<"[","]"," ","_","_","a","t","t","r","i","b","u","t","e","_","_",
                  "(","(","a","l","i","g","n","e","d","(">> \o al
             \o <<")",")",")"," ","="," ","{">>

Closing == <<"}",";","\n","\n">>

\* the decimal literals joined by commas, none after the last
DecimalWritesJoined(t) ==
    LET f == flatten(t)
    IN  [k \in 1..Len(f) |->
            ScalarStr(t.dtype, f[k]) \o (IF k < Len(f) THEN <<",">> ELSE <<>>)]

\* float32 and uint32: one write per element, the element and a comma
DecimalWrites(t) ==
    LET f == flatten(t)
    IN  [k \in 1..Len(f) |-> ScalarStr(t.dtype, f[k]) \o <<",">>]

\* the raw two's-complement byte after "-0x"
NegLiteralRawByte(v) == <<"-","0","x">> \o Hex2(ByteOf(v))

\* (~int(v) + 1).to_bytes(length=1, byteorder="big").hex(), written after "-0x"
NegLiteral(v) == <<"-","0","x">> \o Hex2((-v - 1) + 1)

\* data_hexstr[i:i+2], written after "+0x"
PosLiteral(hexstr, i) == <<"+","0","x">> \o SubSeq(hexstr, i + 1, i + 2)

\* the test against the element index instead of the hex-string index
CommaTestElementIndex(i, n) == i # n - 1

\* i != (len(flatten) - 1) * 2
CommaTest(i, n) == i # (n - 1) * 2

\* int8 and uint8: for i in range(0, len(data_hexstr), 2), the literal and
\* then, when the test says so, a comma
HexWrites(t) ==
    LET f      == flatten(t)
        hexstr == data_hexstr(t)
        Iter(j) ==
            LET i == 2 * (j - 1)
                v == f[(i \div 2) + 1]
            IN  <<IF v < 0 THEN NegLiteral(v) ELSE PosLiteral(hexstr, i)>>
                \o (IF CommaTest(i, Len(f)) THEN << <<",">> >> ELSE <<>>)
    IN  ConcatAll([j \in 1..(Len(hexstr) \div 2) |-> Iter(j)])

\* the writes of the initializer body and its closing "};\n\n"
InitWrites(t) ==
    (IF t.dtype = "float32" \/ t.dtype = "uint32"
     THEN DecimalWrites(t) ELSE HexWrites(t))
    \o <<Closing>>

\* a dump that reads the four dimensions before it writes anything
DebugTensorRankFirst(t) ==
    IF Len(t.shape) < 4 THEN [w |-> <<>>, exc |-> "IndexError"]
    ELSE [w |-> << <<"/","*","\n">>, <<"*","/","\n">> >>, exc |-> "none"]

\* the debug dump of tensor_data: its writes, and the exception that ends
\* them ("none" when the dump completes).  shape[0] is read first, shape[3]
\* on the first batch.
DebugTensor(t) ==
    LET sh == t.shape
        open == << <<"/","*","\n">> >>
        Row(n, ch, row) ==
            [col \in 1..sh[3] |->
                ScalarStr(t.dtype, t.item[<<n, row, col - 1, ch>>]) \o <<"\t">>]
            \o << <<"\n">> >>
        Chan(n, ch) ==
            << <<"C","h","a","n","n","e","l"," ">> \o DecStr(ch) \o <<":","\n">> >>
            \o ConcatAll([row \in 1..sh[2] |-> Row(n, ch, row - 1)])
        Batch(n) == ConcatAll([ch \in 1..sh[4] |-> Chan(n, ch - 1)])
    IN  IF Len(sh) = 0 THEN [w |-> open, exc |-> "IndexError"]
        ELSE IF sh[1] = 0 THEN [w |-> open \o << <<"*","/","\n">> >>, exc |-> "none"]
        ELSE IF Len(sh) < 4 THEN [w |-> open, exc |-> "IndexError"]
        ELSE [w |-> open \o ConcatAll([n \in 1..sh[1] |-> Batch(n - 1)])
                    \o << <<"*","/","\n">> >>,
              exc |-> "none"]

\* the debug dump of weights, laid out [row, col, in-channel, out-channel]
DebugWeights(wt) ==
    LET sh == wt.shape
        open == << <<"/","*","\n">> >>
        Row(o, i, row) ==
            [col \in 1..sh[2] |->
                ScalarStr(wt.dtype, wt.item[<<row, col - 1, i, o>>]) \o <<"\t">>]
            \o << <<"\n">> >>
        InCh(o, i) ==
            << <<"I","n","p","u","t"," ","c","h","a","n","n","e","l"," ">>
               \o DecStr(i) \o <<":","\n">> >>
            \o ConcatAll([row \in 1..sh[1] |-> Row(o, i, row - 1)])
        OutCh(o) ==
            << <<"O","u","t","p","u","t"," ","c","h","a","n","n","e","l"," ">>
               \o DecStr(o) \o <<":","\n">> >>
            \o ConcatAll([i \in 1..sh[3] |-> InCh(o, i - 1)])
    IN  IF Len(sh) < 4 THEN [w |-> open, exc |-> "IndexError"]
        ELSE [w |-> open \o ConcatAll([o \in 1..sh[4] |-> OutCh(o - 1)])
                    \o << <<"*","/","\n">> >>,
              exc |-> "none"]

\* everything written after the initializer when debug is set
DebugWrites(a) ==
    LET d == DebugTensor(a.tensor_data)
    IN  IF d.exc # "none" \/ a.weights.dtype = "None" THEN d
        ELSE LET e == DebugWeights(a.weights)
             IN  [w |-> d.w \o e.w, exc |-> e.exc]

(***************************************************************************)
(* Files and handles.  A file is [exists, text].  While a call runs, st    *)
(* holds the two files (h: the declaration artifact, c: the definition     *)
(* artifact), the open handles, the pending exception and the number of    *)
(* I/O operations (open, write) performed.  The fault-th I/O operation of  *)
(* the call raises OSError; fault = 0 means none does.  Once an exception  *)
(* is pending, the statements that follow are skipped.                     *)
(***************************************************************************)
NoFile == [exists |-> FALSE, text |-> <<>>]

Raised(st) == st.exc # "none"

Raise(st, e) == IF Raised(st) \/ e = "none" THEN st ELSE [st EXCEPT !.exc = e]

\* the handle the next open() of path p returns
NextHandle(st, p) == [path |-> p, id |-> st.io + 1]

\* open(p, "w"): creates the file when absent, empties it otherwise
OpenTruncate(st, p, fault) ==
    IF st.exc # "none" THEN st
    ELSE IF st.io + 1 = fault THEN [st EXCEPT !.io = @ + 1, !.exc = "OSError"]
    ELSE [st EXCEPT !.io = @ + 1,
                    !.open = @ \cup {[path |-> p, id |-> st.io + 1]},
                    ![p] = [exists |-> TRUE, text |-> <<>>]]

\* open(p, "a+"): creates the file when absent, keeps its content otherwise
OpenAppend(st, p, fault) ==
    IF Raised(st) THEN st
    ELSE IF st.io + 1 = fault THEN [st EXCEPT !.io = @ + 1, !.exc = "OSError"]
    ELSE [st EXCEPT !.io = @ + 1,
                    !.open = @ \cup {NextHandle(st, p)},
                    ![p] = [exists |-> TRUE, text |-> @.text]]

\* one write() on a file opened for appending
Write(st, p, text, fault) ==
    IF Raised(st) THEN st
    ELSE IF st.io + 1 = fault THEN [st EXCEPT !.io = @ + 1, !.exc = "OSError"]
    ELSE [st EXCEPT !.io = @ + 1, ![p].text = @ \o text]

RECURSIVE WriteAll(_, _, _, _)
WriteAll(st, p, texts, fault) ==
    IF texts = <<>> THEN st
    ELSE WriteAll(Write(st, p, Head(texts), fault), p, Tail(texts), fault)

\* a close() after the body, skipped when the body raised
ExitOnSuccessOnly(st, hd) ==
    IF st.exc # "none" THEN st ELSE [st EXCEPT !.open = @ \ {hd}]

\* leaving a with block: the handle is closed, exception or not
ExitWith(st, hd) == [st EXCEPT !.open = @ \ {hd}]

\* with open(p, "a+") as f: body.  st is the state before the statement,
\* opened the state after the open, done the state after the body ran on it
WithOpen(st, p, opened, done) ==
    IF Raised(opened) THEN opened ELSE ExitWith(done, NextHandle(st, p))

\* the body of the last with block: opening line, initializer, debug dump
SourceBody(st, a, fault) ==
    LET s1 == Write(st, "c", OpeningLine(a), fault)
        s2 == WriteAll(s1, "c", InitWrites(a.tensor_data), fault)
    IN  IF a.debug
        THEN LET d == DebugWrites(a)
             IN  Raise(WriteAll(s2, "c", d.w, fault), d.exc)
        ELSE s2

\* the header opened before the element kind is checked
CheckAfterOpen(files, handles, a, fault) ==
    LET st0 == [h |-> files.h, c |-> files.c, open |-> handles,
                exc |-> "none", io |-> 0]
        o1  == OpenAppend(st0, "h", fault)
    IN  IF a.tensor_data.dtype \notin SupportedDtypes
        THEN WithOpen(st0, "h", o1, Raise(o1, "AssertionError"))
        ELSE LET s1 == WithOpen(st0, "h", o1, Write(o1, "h", HeaderText(a), fault))
                 o2 == OpenAppend(s1, "c", fault)
                 s2 == IF ~ Raised(s1) /\ ~ s1.c.exists
                       THEN WithOpen(s1, "c", o2, Write(o2, "c", IncludeLine, fault))
                       ELSE s1
                 o3 == OpenAppend(s2, "c", fault)
             IN  WithOpen(s2, "c", o3, SourceBody(o3, a, fault))

create_header_file(files, handles, a, fault) ==
    LET st0 == [h |-> files.h, c |-> files.c, open |-> handles,
                exc |-> "none", io |-> 0]
    IN  IF a.tensor_data.dtype \notin SupportedDtypes
        THEN Raise(st0, "AssertionError")
        ELSE LET o1 == OpenAppend(st0, "h", fault)
                 s1 == WithOpen(st0, "h", o1, Write(o1, "h", HeaderText(a), fault))
                 o2 == OpenAppend(s1, "c", fault)
                 s2 == IF ~ Raised(s1) /\ ~ s1.c.exists
                       THEN WithOpen(s1, "c", o2, Write(o2, "c", IncludeLine, fault))
                       ELSE s1
                 o3 == OpenAppend(s2, "c", fault)
             IN  WithOpen(s2, "c", o3, SourceBody(o3, a, fault))

(***************************************************************************)
(* Input arrays.  Arr builds the array whose elements, listed in row-major *)
(* order, are data (np.array(data).reshape(shape)).                        *)
(***************************************************************************)
RECURSIVE Indices(_)
Indices(shape) ==
    IF shape = <<>> THEN {<<>>}
    ELSE {<<i>> \o r : i \in 0..(Head(shape) - 1), r \in Indices(Tail(shape))}

\* the row-major position (from 0) of an index tuple
RECURSIVE Ravel(_, _)
Ravel(idx, shape) ==
    IF idx = <<>> THEN 0
    ELSE Head(idx) * Prod(Tail(shape)) + Ravel(Tail(idx), Tail(shape))

Arr(dtype, shape, data) ==
    [dtype |-> dtype, shape |-> shape,
     item |-> [idx \in Indices(shape) |-> data[Ravel(idx, shape) + 1]]]

Arrays(dtype, shape, vals) ==
    {Arr(dtype, shape, d) : d \in [1..Prod(shape) -> vals]}

F(neg, q) == [neg |-> neg, q |-> q]

Args(tn, sec, t, dbg, wt) ==
    [tensor_name |-> tn, section |-> sec, tensor_data |-> t,
     debug |-> dbg, weights |-> wt]

MaxCalls == 2

MaxFault == 12

MaxQ == 9

\* the arrays of the call sequences
SeqTensors ==
    {Arr("float32", <<1>>, <<F(TRUE, 6)>>),
     Arr("int8", <<2>>, <<-5, 5>>),
     Arr("uint8", <<1>>, <<250>>),
     Arr("uint32", <<0>>, <<>>),
     Arr("uint32", <<>>, <<7>>),
     Arr("int8", <<1, 1, 2, 1>>, <<-128, 127>>),
     Arr("int16", <<1>>, <<1>>)}

SeqWeights ==
    {NoWeights,
     Arr("int8", <<1, 1, 1, 1>>, <<-1>>),
     Arr("int8", <<1>>, <<3>>)}

\* the calls of the call sequences, with the I/O operation that fails:
\* every array without debug, with and without a section; every array with
\* debug and each weights argument; a second tensor name and each I/O fault
\* on a call that dumps the array and the weights
SeqCalls ==
    {[a |-> Args(<<"a">>, sec, t, FALSE, NoWeights), fault |-> 0] :
        sec \in {<<>>, <<"s">>}, t \in SeqTensors}
    \cup {[a |-> Args(<<"a">>, <<>>, t, TRUE, wt), fault |-> 0] :
        t \in SeqTensors, wt \in SeqWeights}
    \cup {[a |-> Args(<<"b">>, <<"s">>, Arr("int8", <<1, 1, 2, 1>>, <<-128, 127>>),
                      TRUE, Arr("int8", <<1, 1, 1, 1>>, <<-1>>)),
           fault |-> k] : k \in 0..MaxFault}

\* the arrays of the single calls: every int8 and uint8 value, float32
\* magnitudes up to MaxQ quarters of either sign, uint32 values of one to ten
\* digits, and arrays of several shapes over a few values
OneTensors ==
    Arrays("int8", <<1>>, -128..127)
    \cup Arrays("uint8", <<1>>, 0..255)
    \cup Arrays("float32", <<1>>, {F(n, q) : n \in BOOLEAN, q \in 0..MaxQ})
    \cup Arrays("uint32", <<1>>, {0, 7, 10, 255, 65536, 2147483647})
    \cup UNION {Arrays("int8", sh, {-128, -1, 0, 127})
                \cup Arrays("uint8", sh, {0, 255})
                \cup Arrays("float32", sh, {F(TRUE, 6), F(FALSE, 1)})
                \cup Arrays("uint32", sh, {0, 2147483647}) :
                sh \in {<<>>, <<0>>, <<2>>, <<3>>, <<2, 2>>, <<2, 0>>, <<1, 1, 2, 1>>}}

OneCalls ==
    {[a |-> Args(<<"a">>, <<>>, t, FALSE, NoWeights), fault |-> 0] : t \in OneTensors}

(***************************************************************************)
(* The state: the two files, the handles left open, and the calls made so  *)
(* far with the exception each ended with ("none": it returned).           *)
(***************************************************************************)
Init ==
    /\ fs = [h |-> NoFile, c |-> NoFile]
    /\ open_files = {}
    /\ log = <<>>

Call(a, fault) ==
    LET r == create_header_file(fs, open_files, a, fault)
    IN  /\ fs' = [h |-> r.h, c |-> r.c]
        /\ open_files' = r.open
        /\ log' = Append(log, [args |-> a, exc |-> r.exc])

\* a call in a sequence of calls on the same pair of files
CallNext ==
    /\ Len(log) < MaxCalls
    /\ \E x \in SeqCalls : Call(x.a, x.fault)

\* a call on the fresh directory
CallFresh ==
    /\ log = <<>>
    /\ \E x \in OneCalls : Call(x.a, x.fault)

Next == CallNext

Spec == Init /\ [][Next]_vars

NextOne == CallFresh

SpecOne == Init /\ [][NextOne]_vars

(***************************************************************************)
(* Reading the artifacts back: helpers of the properties below.            *)
(***************************************************************************)
Last == log[Len(log)]

Returned == log # <<>> /\ Last.exc = "none"

AllReturned == \A i \in 1..Len(log) : log[i].exc = "none"

IsPrefix(s, t) == Len(s) <= Len(t) /\ SubSeq(t, 1, Len(s)) = s

IsSuffix(s, t) == Len(s) <= Len(t) /\ SubSeq(t, Len(t) - Len(s) + 1, Len(t)) = s

Count(s, ch) == Cardinality({i \in 1..Len(s) : s[i] = ch})

\* the largest i with s[i] = ch, 0 when there is none
LastIndexOf(s, ch) ==
    LET I == {i \in 1..Len(s) : s[i] = ch}
    IN  IF I = {} THEN 0 ELSE CHOOSE i \in I : \A j \in I : j <= i

\* the smallest i > from with s[i] = ch, 0 when there is none
IndexAfter(s, ch, from) ==
    LET I == {i \in (from + 1)..Len(s) : s[i] = ch}
    IN  IF I = {} THEN 0 ELSE CHOOSE i \in I : \A j \in I : i <= j

\* the characters between the last "{" of a text and the "}" that follows it
LastBody(text) ==
    LET i == LastIndexOf(text, "{")
    IN  SubSeq(text, i + 1, IndexAfter(text, "}", i) - 1)

\* the text from the "}" that closes the last initializer
AfterLastBody(text) ==
    SubSeq(text, IndexAfter(text, "}", LastIndexOf(text, "{")), Len(text))

RECURSIVE SplitAt(_, _)
SplitAt(s, sep) ==
    LET i == IndexAfter(s, sep, 0)
    IN  IF i = 0 THEN <<s>>
        ELSE <<SubSeq(s, 1, i - 1)>> \o SplitAt(SubSeq(s, i + 1, Len(s)), sep)

\* the literal tokens of an initializer body; as in C, a comma after the
\* last literal starts no further element
LiteralTokens(body) ==
    LET p == SplitAt(body, ",")
    IN  IF p[Len(p)] = <<>> THEN SubSeq(p, 1, Len(p) - 1) ELSE p

IsDigit(c, base) == \E d \in 0..(base - 1) : HexDigits[d + 1] = c

DigitVal(c) == CHOOSE d \in 0..15 : HexDigits[d + 1] = c

RECURSIVE NumVal(_, _)
NumVal(ds, base) ==
    IF ds = <<>> THEN 0
    ELSE NumVal(SubSeq(ds, 1, Len(ds) - 1), base) * base + DigitVal(ds[Len(ds)])

RECURSIVE Pow10(_)
Pow10(n) == IF n = 0 THEN 1 ELSE 10 * Pow10(n - 1)

IsHexToken(tok) == Len(tok) >= 4 /\ tok[1] \in {"+", "-"} /\ tok[2] = "0" /\ tok[3] = "x"

\* reads a literal: "-0xhh" is minus the hex magnitude, "+0xhh" the hex
\* magnitude, digits an integer, digits with a point a float32 [neg, q]
ParseLiteral(tok) ==
    IF IsHexToken(tok)
    THEN (IF tok[1] = "-" THEN -1 ELSE 1) * NumVal(SubSeq(tok, 4, Len(tok)), 16)
    ELSE LET neg == tok[1] = "-"
             mag == IF neg THEN Tail(tok) ELSE tok
             dot == IndexAfter(mag, ".", 0)
             fr  == SubSeq(mag, dot + 1, Len(mag))
         IN  IF dot = 0
             THEN (IF neg THEN -1 ELSE 1) * NumVal(mag, 10)
             ELSE F(neg, 4 * NumVal(SubSeq(mag, 1, dot - 1), 10)
                         + (4 * NumVal(fr, 10)) \div Pow10(Len(fr)))

Abs(v) == IF v < 0 THEN -v ELSE v

ByteKinds == {"int8", "uint8"}

\* the last call returned and its array is of a one-byte kind
ByteCallReturned == Returned /\ Last.args.tensor_data.dtype \in ByteKinds

(***************************************************************************)
(* Properties of one call on the fresh directory (SpecOne).                *)
(***************************************************************************)

C2_SignedByteLiteral ==
    ByteCallReturned =>
        LET t    == Last.args.tensor_data
            f    == flatten(t)
            toks == LiteralTokens(LastBody(fs.c.text))
        IN  /\ Len(toks) = Len(f)
            /\ \A k \in 1..Len(f) :
                  LET v == f[k]  tok == toks[k]
                  IN  /\ Len(tok) = 5
                      /\ tok[1] = (IF v < 0 THEN "-" ELSE "+")
                      /\ tok[2] = "0" /\ tok[3] = "x"
                      /\ IsDigit(tok[4], 16) /\ IsDigit(tok[5], 16)
                      /\ 16 * DigitVal(tok[4]) + DigitVal(tok[5]) = Abs(v)
                      /\ (t.dtype = "uint8" => tok[1] # "-")

C2_Witness ==
    /\ ByteCallReturned
    /\ Last.args.tensor_data.shape = <<1>>
    /\ Last.args.tensor_data.item[<<0>>] = -128
    /\ LastBody(fs.c.text) = <<"-", "0", "x", "8", "0">>

\* the re-implementation the design notes propose: a negative value as
\* 256 - |v| in two hex digits after "-0x", any other as the byte after "+0x"
DirectLiteral(v) ==
    IF v < 0 THEN <<"-", "0", "x">> \o Hex2(256 - Abs(v))
    ELSE <<"+", "0", "x">> \o Hex2(v)

\* the same with the magnitude |v| in place of 256 - |v|
MagnitudeLiteral(v) ==
    IF v < 0 THEN <<"-", "0", "x">> \o Hex2(Abs(v))
    ELSE <<"+", "0", "x">> \o Hex2(v)

\* C9 as stated: every int8 or uint8 element's token is the one the direct
\* re-implementation (256 - |v| for a negative v) produces.
C9_DirectEquivalent ==
    ByteCallReturned =>
        LET f    == flatten(Last.args.tensor_data)
            toks == LiteralTokens(LastBody(fs.c.text))
        IN  /\ Len(toks) = Len(f)
            /\ \A k \in 1..Len(f) : toks[k] = DirectLiteral(f[k])

\* C9 amended: every int8 or uint8 element's token is the one obtained by
\* formatting the magnitude |v| after the sign; formatting 256 - |v| gives
\* the same token exactly when v is non-negative or v = -128.
C9_MagnitudeEquivalent ==
    ByteCallReturned =>
        LET f    == flatten(Last.args.tensor_data)
            toks == LiteralTokens(LastBody(fs.c.text))
        IN  /\ Len(toks) = Len(f)
            /\ \A k \in 1..Len(f) :
                  /\ toks[k] = MagnitudeLiteral(f[k])
                  /\ (toks[k] = DirectLiteral(f[k])) <=> (f[k] >= 0 \/ f[k] = -128)

C9_Witness ==
    /\ ByteCallReturned
    /\ Last.args.tensor_data.dtype = "int8"
    /\ Last.args.tensor_data.shape = <<1>>
    /\ Last.args.tensor_data.item[<<0>>] = -5
    /\ LastBody(fs.c.text) = <<"-", "0", "x", "0", "5">>

OneElement == Returned /\ Last.args.tensor_data.shape = <<1>>

\* C5 as stated: for an array of shape (1,) of any supported kind the
\* initializer body is one literal, with no comma, directly followed by "};".
C5_SingleNoComma ==
    OneElement =>
        LET body == LastBody(fs.c.text)
        IN  /\ body # <<>>
            /\ Count(body, ",") = 0
            /\ ParseLiteral(body) = Last.args.tensor_data.item[<<0>>]
            /\ IsPrefix(<<"}", ";">>, AfterLastBody(fs.c.text))

\* C5 amended: for an array of shape (1,), the initializer body holds one
\* literal, the element; for int8 and uint8 the literal is directly followed
\* by "};", for float32 and uint32 by one comma and then "};".
C5_SingleElement ==
    OneElement =>
        LET t    == Last.args.tensor_data
            body == LastBody(fs.c.text)
            tok  == IF t.dtype \in ByteKinds THEN body
                    ELSE SubSeq(body, 1, Len(body) - 1)
        IN  /\ tok # <<>>
            /\ Count(tok, ",") = 0
            /\ ParseLiteral(tok) = t.item[<<0>>]
            /\ (t.dtype \notin ByteKinds => body = tok \o <<",">>)
            /\ IsPrefix(<<"}", ";">>, AfterLastBody(fs.c.text))

C5_Witness ==
    /\ OneElement
    /\ Last.args.tensor_data.dtype = "float32"
    /\ LastBody(fs.c.text) = <<"-", "1", ".", "5", ",">>

\* C6: empty array.  A call with an array of zero elements, of any supported
\* kind, returns; the definition artifact ends with "{" directly followed by
\* "};" and the size macro it wrote is "#define <tensor_name>_len 0".
C6_EmptyArray ==
    (log # <<>> /\ Last.args.tensor_data.dtype \in SupportedDtypes
                /\ Prod(Last.args.tensor_data.shape) = 0) =>
        LET lines == SplitAt(fs.h.text, "\n")
        IN  /\ Last.exc = "none"
            /\ LastBody(fs.c.text) = <<>>
            /\ IsSuffix(<<"{", "}", ";", "\n", "\n">>, fs.c.text)
            /\ Len(lines) >= 3
            /\ lines[Len(lines) - 2] =
                  <<"#","d","e","f","i","n","e"," ">> \o Last.args.tensor_name
                  \o <<"_","l","e","n"," ","0">>

C6_Witness ==
    /\ Returned
    /\ Last.args.tensor_data.dtype = "uint8"
    /\ Last.args.tensor_data.shape = <<2, 0>>
    /\ LastBody(fs.c.text) = <<>>

\* C8: comma placement.  For an int8 or uint8 array of n >= 1 elements the
\* initializer body holds n literals and n - 1 commas, none after the last
\* literal; the test i != (len(flatten) - 1) * 2 is true at every loop index
\* i = 0, 2, ..., 2n - 2 except the last.
C8_CommaPlacement ==
    (ByteCallReturned /\ Prod(Last.args.tensor_data.shape) >= 1) =>
        LET n      == Prod(Last.args.tensor_data.shape)
            body   == LastBody(fs.c.text)
            pieces == SplitAt(body, ",")
        IN  /\ Count(body, ",") = n - 1
            /\ Len(pieces) = n
            /\ \A k \in 1..n : IsHexToken(pieces[k]) /\ Len(pieces[k]) = 5
            /\ \A j \in 1..n : CommaTest(2 * (j - 1), n) <=> (j # n)

C8_Witness ==
    /\ ByteCallReturned
    /\ Last.args.tensor_data.shape = <<3>>
    /\ Count(LastBody(fs.c.text), ",") = 2

(***************************************************************************)
(* Properties of sequences of calls on the same pair of files (Spec).      *)
(***************************************************************************)
InitBlock(a) == OpeningLine(a) \o ConcatAll(InitWrites(a.tensor_data))

DebugText(a) == IF a.debug THEN ConcatAll(DebugWrites(a).w) ELSE <<>>

\* the declaration artifact after k calls that all returned: the k pairs
\* in call order, two lines per call, a "#define" and an "extern" line
DeclarationAccumulated ==
    LET lines == SplitAt(fs.h.text, "\n")
    IN  /\ fs.h.exists
        /\ fs.h.text = ConcatAll([i \in 1..Len(log) |-> HeaderText(log[i].args)])
        /\ Count(fs.h.text, "\n") = 2 * Len(log)
        /\ \A i \in 1..Len(log) :
              /\ IsPrefix(<<"#","d","e","f","i","n","e"," ">>, lines[2 * i - 1])
              /\ IsPrefix(<<"e","x","t","e","r","n"," ">>, lines[2 * i])

\* C3 as stated: after k calls that all returned, starting from the fresh
\* directory, the declaration artifact is the k pairs in call order and the
\* definition artifact is the include line followed by the k initializer
\* blocks in call order, and nothing else.
C3_OnlyInitializerBlocks ==
    (log # <<>> /\ AllReturned) =>
        /\ DeclarationAccumulated
        /\ fs.c.text =
              IncludeLine \o ConcatAll([i \in 1..Len(log) |-> InitBlock(log[i].args)])

\* what a step keeps: the content each artifact had is a prefix of what it has
PrefixKept ==
    /\ fs.h.exists => (fs'.h.exists /\ IsPrefix(fs.h.text, fs'.h.text))
    /\ fs.c.exists => (fs'.c.exists /\ IsPrefix(fs.c.text, fs'.c.text))

AccumulatedInv ==
    IF log = <<>> THEN ~ fs.h.exists /\ ~ fs.c.exists
    ELSE AllReturned =>
            /\ DeclarationAccumulated
            /\ fs.c.exists
            /\ Count(fs.c.text, "#") = 1
            /\ fs.c.text =
                 IncludeLine
                 \o ConcatAll([i \in 1..Len(log) |->
                                 InitBlock(log[i].args) \o DebugText(log[i].args)])

\* C3 amended: after k calls that all returned, starting from the fresh
\* directory, the declaration artifact is the k macro/extern pairs in call
\* order (two lines per call) and the definition artifact is one include
\* line, at the start, followed by the k initializer blocks in call order,
\* each followed by the comment blocks of its call when that call had debug
\* set; every call keeps the content each artifact had as a prefix.
C3_Accumulation == [] AccumulatedInv /\ [][PrefixKept]_vars

C3_Witness ==
    /\ Len(log) = 2
    /\ AllReturned
    /\ log[1].args.debug /\ log[1].args.weights.dtype # "None"
    /\ ~ log[2].args.debug
    /\ Count(fs.h.text, "\n") = 4
    /\ Count(fs.c.text, "{") = 2

\* C4: unsupported element kind.  A call whose array is of no supported
\* kind raises AssertionError and leaves both artifacts, their existence
\* included, and the open handles as they were.
C4_UnsupportedKind ==
    [][(log' # log /\ Last'.args.tensor_data.dtype \notin SupportedDtypes) =>
          (fs' = fs /\ open_files' = open_files /\ Last'.exc = "AssertionError")]_vars

C4_Witness ==
    /\ Len(log) = 1
    /\ Last.args.tensor_data.dtype = "int16"
    /\ Last.exc = "AssertionError"
    /\ ~ fs.h.exists /\ ~ fs.c.exists

\* C7: file handles.  After every call, whether it returned or raised
\* (unsupported kind, an I/O error on either artifact, an error in the debug
\* dump), no handle on either artifact is open.
C7_HandlesReleased == log # <<>> => open_files = {}

C7_Witness ==
    /\ Len(log) = 2
    /\ log[1].exc = "IndexError"
    /\ Last.exc = "OSError"
    /\ IsSuffix(<<"{">>, fs.c.text)
    /\ open_files = {}

\* the smallest i >= from with text[i] = x and text[i + 1] = y, 0 when none
NextPair(text, x, y, from) ==
    LET I == {i \in from..(Len(text) - 1) : text[i] = x /\ text[i + 1] = y}
    IN  IF I = {} THEN 0 ELSE CHOOSE i \in I : \A j \in I : i <= j

\* whether a C text, read from position from outside any comment, ends
\* inside a comment
RECURSIVE EndsInComment(_, _)
EndsInComment(text, from) ==
    LET o == NextPair(text, "/", "*", from)
    IN  IF o = 0 THEN FALSE
        ELSE LET c == NextPair(text, "*", "/", o + 2)
             IN  IF c = 0 THEN TRUE ELSE EndsInComment(text, c + 2)

DebugRankCase(a) ==
    /\ a.debug
    /\ a.tensor_data.dtype \in SupportedDtypes
    /\ Len(a.tensor_data.shape) \in 1..3
    /\ a.tensor_data.shape[1] >= 1

\* C10: partial output of a failing debug dump.  A call with debug set and
\* an array of a supported kind with one to three dimensions, the first at
\* least 1, raises IndexError (no I/O error occurring) after it has appended
\* the macro/extern pair to the declaration artifact and, to the definition
\* artifact, the include line when the file was new, the whole initializer
\* block and the opening "/*" line; the definition artifact ends inside a
\* comment.
C10_PartialDebugOutput ==
    [][(log' # log /\ DebugRankCase(Last'.args) /\ Last'.exc # "OSError") =>
          /\ Last'.exc = "IndexError"
          /\ fs'.h.text = fs.h.text \o HeaderText(Last'.args)
          /\ fs'.c.text = fs.c.text
                          \o (IF fs.c.exists THEN <<>> ELSE IncludeLine)
                          \o InitBlock(Last'.args) \o <<"/", "*", "\n">>
          /\ EndsInComment(fs'.c.text, 1)]_vars

C10_Witness ==
    /\ Len(log) = 2
    /\ log[1].exc = "none"
    /\ DebugRankCase(Last.args)
    /\ Last.args.tensor_data.shape = <<2>>
    /\ Last.exc = "IndexError"
    /\ IsSuffix(<<"}", ";", "\n", "\n", "/", "*", "\n">>, fs.c.text)

====
